---- MODULE Spec2Model ----
(***************************************************************************)
(* Model of the Pokedex team builder (client/src/pages/home.tsx and        *)
(* client/src/lib/pokeapi.ts): the type chart, calculateDefensiveMatchups, *)
(* getOffensiveStrengths, the Home component's state (searchId, the query  *)
(* for the current pokemon, team) and its handlers.                        *)
(*                                                                         *)
(* Two specifications share the variables:                                 *)
(*   Spec    the Home component: subject changes and roster operations;    *)
(*   SpecFn  the two exported pure functions applied to bounded inputs.    *)
(***************************************************************************)
EXTENDS Integers, Sequences, FiniteSets, TLC

VARIABLES
    searchId,     \* useState searchId: the query key, a number or a string
    queryStatus,  \* useQuery status of the key: "pending" | "success" | "error"
    pokemon,      \* useQuery data: the loaded entity, or NoPokemon (undefined)
    team,         \* useState team: sequence of entity records
    toast,        \* title of the last notification raised through toast()
    fnTypes,      \* SpecFn: the argument handed to the pure functions
    fnPc,         \* SpecFn: "start" | "matchups" | "strengths" ("idle" in Spec)
    fnResult      \* SpecFn: what the call produced

vars == <<searchId, queryStatus, pokemon, team, toast, fnTypes, fnPc, fnResult>>
appVars == <<searchId, queryStatus, pokemon, team, toast>>
fnVars == <<fnTypes, fnPc, fnResult>>

---------------------------------------------------------------------------
(* Bounds *)

\* longest argument sequence handed to the pure functions in SpecFn
MaxLen == 2

\* team.length >= 6 rejects an add
MaxTeam == 6

\* A multiplier is kept as an integer count of 1/Unit, so that every product of
\* factors 2, 0.5 and 0 over at most MaxLen defending types is exact
\* (the JavaScript doubles are exact on these values too). An entity has one
\* or two types, so MaxLen is at least 2.
Unit == 2 ^ MaxLen

\* the value JavaScript gives `undefined * k`; it compares false with > 1
NaN == 0 - 1

---------------------------------------------------------------------------
(* Identifiers and String.prototype.toLowerCase *)

\* Object.keys(TYPE_CHART), in insertion order
AllTypes ==
    << "normal", "fire", "water", "electric", "grass", "ice", "fighting",
       "poison", "ground", "flying", "psychic", "bug", "rock", "ghost",
       "dragon", "steel", "dark", "fairy" >>

CanonicalTypes == { AllTypes[i] : i \in DOMAIN AllTypes }

\* spellings of canonical types that differ in letter case only
CaseVariants == { "Water", "FIRE" }

\* identifiers that are no type at all: one that names nothing, and one that
\* names a member every JavaScript object inherits from Object.prototype
UnknownIds == { "shadow", "constructor" }

Identifiers == CanonicalTypes \cup CaseVariants \cup UnknownIds

\* Own and inherited members of Object.prototype that an object literal
\* answers for; of these only the all-lower-case spellings survive toLowerCase()
ObjectPrototypeKeys == { "constructor", "__proto__" }

toLowerCase(s) ==
    CASE s = "Water" -> "water"
      [] s = "FIRE" -> "fire"
      [] s = "GHOSTY" -> "ghosty"
      [] OTHER -> s

---------------------------------------------------------------------------
(* TYPE_CHART *)

Entry(d, h, z) == [double |-> d, half |-> h, zero |-> z]

TYPE_CHART ==
    [ t \in CanonicalTypes |->
        CASE t = "normal" -> Entry(<<"fighting">>, <<>>, <<"ghost">>)
          [] t = "fire" -> Entry(<<"water", "ground", "rock">>,
                                 <<"fire", "grass", "ice", "bug", "steel", "fairy">>, <<>>)
          [] t = "water" -> Entry(<<"electric", "grass">>,
                                  <<"fire", "water", "ice", "steel">>, <<>>)
          [] t = "electric" -> Entry(<<"ground">>, <<"electric", "flying", "steel">>, <<>>)
          [] t = "grass" -> Entry(<<"fire", "ice", "poison", "flying", "bug">>,
                                  <<"water", "electric", "grass", "ground">>, <<>>)
          [] t = "ice" -> Entry(<<"fire", "fighting", "rock", "steel">>, <<"ice">>, <<>>)
          [] t = "fighting" -> Entry(<<"flying", "psychic", "fairy">>,
                                     <<"bug", "rock", "dark">>, <<>>)
          [] t = "poison" -> Entry(<<"ground", "psychic">>,
                                   <<"grass", "fighting", "poison", "bug", "fairy">>, <<>>)
          [] t = "ground" -> Entry(<<"water", "grass", "ice">>, <<"poison", "rock">>,
                                   <<"electric">>)
          [] t = "flying" -> Entry(<<"electric", "ice", "rock">>,
                                   <<"grass", "fighting", "bug">>, <<"ground">>)
          [] t = "psychic" -> Entry(<<"bug", "ghost", "dark">>, <<"fighting", "psychic">>, <<>>)
          [] t = "bug" -> Entry(<<"fire", "flying", "rock">>,
                                <<"grass", "fighting", "ground">>, <<>>)
          [] t = "rock" -> Entry(<<"water", "grass", "fighting", "ground", "steel">>,
                                 <<"normal", "fire", "poison", "flying">>, <<>>)
          [] t = "ghost" -> Entry(<<"ghost", "dark">>, <<"poison", "bug">>,
                                  <<"normal", "fighting">>)
          [] t = "dragon" -> Entry(<<"ice", "dragon", "fairy">>,
                                   <<"fire", "water", "electric", "grass">>, <<>>)
          [] t = "steel" -> Entry(<<"fire", "fighting", "ground">>,
                                  <<"normal", "grass", "ice", "flying", "psychic", "bug",
                                    "rock", "dragon", "steel", "fairy">>, <<"poison">>)
          [] t = "dark" -> Entry(<<"fighting", "bug", "fairy">>, <<"ghost", "dark">>,
                                 <<"psychic">>)
          [] t = "fairy" -> Entry(<<"poison", "steel">>, <<"fighting", "bug", "dark">>,
                                  <<"dragon">>) ]

\* Array.prototype.includes
Includes(list, x) == \E i \in DOMAIN list : list[i] = x

\* TYPE_CHART[key]: an own entry, a member inherited from Object.prototype
\* (truthy, and without double/half/zero), or undefined
ChartLookup(key) ==
    IF key \in DOMAIN TYPE_CHART THEN "entry"
    ELSE IF key \in ObjectPrototypeKeys THEN "inherited"
    ELSE "undefined"

---------------------------------------------------------------------------
(* calculateDefensiveMatchups *)

\* matchups[t] *= num/den
TimesEq(matchups, t, num, den) ==
    IF t \in DOMAIN matchups
    THEN [matchups EXCEPT ![t] = IF @ = NaN THEN NaN ELSE (@ * num) \div den]
    ELSE [k \in DOMAIN matchups \cup {t} |-> IF k = t THEN NaN ELSE matchups[k]]

\* list.forEach((t) => (matchups[t] *= num/den))
RECURSIVE ForEachTimes(_, _, _, _)
ForEachTimes(matchups, list, num, den) ==
    IF list = <<>> THEN matchups
    ELSE ForEachTimes(TimesEq(matchups, Head(list), num, den), Tail(list), num, den)

\* mutant: the zero list is never applied
ApplyZeroSkipped(matchups, list) == matchups

\* data.zero.forEach((t) => (matchups[t] *= 0))
ApplyZero(matchups, list) == ForEachTimes(matchups, list, 0, 1)

\* data.half.forEach((t) => (matchups[t] *= 0.5))
ApplyHalf(matchups, list) == ForEachTimes(matchups, list, 1, 2)

\* mutant: matchups[t] = 2 in place of matchups[t] *= 2
ApplyDoubleAssigned(matchups, list) ==
    [k \in DOMAIN matchups |-> IF Includes(list, k) THEN 2 * Unit ELSE matchups[k]]

\* data.double.forEach((t) => (matchups[t] *= 2))
ApplyDouble(matchups, list) == ForEachTimes(matchups, list, 2, 1)

\* the body of types.forEach for one defending type: acc is
\* [threw, matchups]; reading .double of an inherited member is a TypeError
DefendingStep(acc, defendingType) ==
    LET key == toLowerCase(defendingType)
        kind == ChartLookup(key)
    IN  IF kind = "undefined" THEN acc
        ELSE IF kind = "inherited" THEN [acc EXCEPT !.threw = TRUE]
        ELSE [acc EXCEPT !.matchups =
                ApplyZero(ApplyHalf(ApplyDouble(@, TYPE_CHART[key].double),
                                    TYPE_CHART[key].half),
                          TYPE_CHART[key].zero)]

RECURSIVE ForEachDefending(_, _)
ForEachDefending(acc, types) ==
    IF acc.threw \/ types = <<>> THEN acc
    ELSE ForEachDefending(DefendingStep(acc, Head(types)), Tail(types))

NoMatchups == [t \in {} |-> 0]

\* [threw |-> FALSE, matchups |-> the returned record], or threw = TRUE when the
\* call ends in a TypeError and returns nothing
calculateDefensiveMatchups(types) ==
    LET r == ForEachDefending([threw |-> FALSE,
                               matchups |-> [t \in CanonicalTypes |-> Unit]], types)
    IN  IF r.threw THEN [threw |-> TRUE, matchups |-> NoMatchups] ELSE r

---------------------------------------------------------------------------
(* getOffensiveStrengths *)

\* Set.prototype.add on an insertion-ordered set
SetAdd(strengths, x) == IF Includes(strengths, x) THEN strengths ELSE Append(strengths, x)

\* mutant: the scan reads data.half in place of data.double
RECURSIVE ScanEntriesHalf(_, _, _)
ScanEntriesHalf(strengths, atkType, i) ==
    IF i > Len(AllTypes) THEN strengths
    ELSE ScanEntriesHalf(
            IF Includes(TYPE_CHART[AllTypes[i]].half, toLowerCase(atkType))
            THEN SetAdd(strengths, AllTypes[i])
            ELSE strengths,
            atkType, i + 1)

\* Object.entries(TYPE_CHART).forEach(([defType, data]) => ...) from entry i on
RECURSIVE ScanEntries(_, _, _)
ScanEntries(strengths, atkType, i) ==
    IF i > Len(AllTypes) THEN strengths
    ELSE ScanEntries(
            IF Includes(TYPE_CHART[AllTypes[i]].double, toLowerCase(atkType))
            THEN SetAdd(strengths, AllTypes[i])
            ELSE strengths,
            atkType, i + 1)

RECURSIVE ForEachAttacker(_, _)
ForEachAttacker(strengths, attackerTypes) ==
    IF attackerTypes = <<>> THEN strengths
    ELSE ForEachAttacker(ScanEntries(strengths, Head(attackerTypes), 1),
                         Tail(attackerTypes))

\* mutant: the attackers' own double lists, with no inverse scan
RECURSIVE getOffensiveStrengthsOwnList(_)
getOffensiveStrengthsOwnList(attackerTypes) ==
    IF attackerTypes = <<>> THEN <<>>
    ELSE LET rest == getOffensiveStrengthsOwnList(Tail(attackerTypes))
             key == toLowerCase(Head(attackerTypes))
             own == IF key \in DOMAIN TYPE_CHART THEN TYPE_CHART[key].double ELSE <<>>
         IN  own \o SelectSeq(rest, LAMBDA x : ~Includes(own, x))

\* Array.from(strengths)
getOffensiveStrengths(attackerTypes) == ForEachAttacker(<<>>, attackerTypes)

---------------------------------------------------------------------------
(* The remote database behind getPokemon, and the Pokemon records it returns *)

Pokemon(i, n, ts) == [id |-> i, name |-> n, types |-> ts]

\* The entities the remote database holds, by identifying number: one more
\* than a team can hold, single- and dual-typed.
Pokedex ==
    << Pokemon(1, "embery", <<"fire">>),
       Pokemon(2, "squirty", <<"water">>),
       Pokemon(3, "plainy", <<"normal">>),
       Pokemon(4, "ghosty", <<"ghost">>),
       Pokemon(5, "mindy", <<"psychic">>),
       Pokemon(6, "shady", <<"dark">>),
       Pokemon(7, "rocky", <<"rock", "ground">>) >>

Ids == DOMAIN Pokedex

\* `undefined` as the query's data
NoPokemon == Pokemon(0, "", <<>>)

\* a query key: a number (handleNext, handlePrev, the initial 1) or a string
\* (handleSearch)
NumKey(n) == [kind |-> "number", num |-> n, str |-> ""]
StrKey(s) == [kind |-> "string", num |-> 0, str |-> s]

\* what the user may have typed into the search box
SearchInputs == { "GHOSTY", "missingno", " " }

\* String.prototype.trim
Trim(s) == IF s = " " THEN "" ELSE s

\* getPokemon(query): the number of the entity the remote database answers
\* with, or 0 when the response is not ok ("Pokemon not found")
getPokemon(query) ==
    LET q == IF (query.kind = "number" /\ query.num = 0)
                \/ (query.kind = "string" /\ query.str = "")
             THEN NumKey(1) ELSE query
    IN  IF q.kind = "number"
        THEN IF q.num \in Ids THEN q.num ELSE 0
        ELSE IF \E i \in Ids : Pokedex[i].name = toLowerCase(q.str)
             THEN CHOOSE i \in Ids : Pokedex[i].name = toLowerCase(q.str)
             ELSE 0

---------------------------------------------------------------------------
(* Home: state and handlers *)

AppInit ==
    /\ searchId = NumKey(1)
    /\ queryStatus = "pending"
    /\ pokemon = NoPokemon
    /\ team = <<>>
    /\ toast = "none"

\* setSearchId(key): a changed key starts a new query, which has no data
\* until it resolves; the same key is no state change. (A key answered from
\* the query cache reaches the state LoadSuccess leads to without the wait.)
setSearchId(key) ==
    IF key = searchId
    THEN UNCHANGED <<searchId, queryStatus, pokemon>>
    ELSE /\ searchId' = key
         /\ queryStatus' = "pending"
         /\ pokemon' = NoPokemon

handleSearch(inputValue) ==
    /\ IF Trim(inputValue) # ""
       THEN setSearchId(StrKey(toLowerCase(inputValue)))
       ELSE UNCHANGED <<searchId, queryStatus, pokemon>>
    /\ UNCHANGED <<team, toast, fnVars>>

handleNext ==
    /\ IF pokemon # NoPokemon
       THEN setSearchId(NumKey(pokemon.id + 1))
       ELSE UNCHANGED <<searchId, queryStatus, pokemon>>
    /\ UNCHANGED <<team, toast, fnVars>>

handlePrev ==
    /\ IF pokemon # NoPokemon /\ pokemon.id > 1
       THEN setSearchId(NumKey(pokemon.id - 1))
       ELSE UNCHANGED <<searchId, queryStatus, pokemon>>
    /\ UNCHANGED <<team, toast, fnVars>>

\* the query function resolves with the entity
LoadSuccess ==
    /\ queryStatus = "pending"
    /\ getPokemon(searchId) # 0
    /\ queryStatus' = "success"
    /\ pokemon' = Pokedex[getPokemon(searchId)]
    /\ UNCHANGED <<searchId, team, toast, fnVars>>

\* the response is not ok and the query function throws (retry: false); the
\* effect on isError toasts
LoadFailure ==
    /\ queryStatus = "pending"
    /\ getPokemon(searchId) = 0
    /\ queryStatus' = "error"
    /\ toast' = "MissingNo?"
    /\ UNCHANGED <<searchId, pokemon, team, fnVars>>

\* mutant: the subject is put in front of the existing members
addToTeamInFront ==
    /\ IF pokemon = NoPokemon
       THEN UNCHANGED <<team, toast>>
       ELSE IF Len(team) >= MaxTeam
       THEN /\ toast' = "BOX FULL!"
            /\ UNCHANGED team
       ELSE IF \E i \in DOMAIN team : team[i].id = pokemon.id
       THEN /\ toast' = "ALREADY CAUGHT!"
            /\ UNCHANGED team
       ELSE /\ team' = <<pokemon>> \o team
            /\ toast' = "GOTCHA!"
    /\ UNCHANGED <<searchId, queryStatus, pokemon, fnVars>>

\* mutant: a duplicate is reported and added all the same
addToTeamKeepsDuplicate ==
    /\ IF pokemon = NoPokemon
       THEN UNCHANGED <<team, toast>>
       ELSE IF Len(team) >= MaxTeam
       THEN /\ toast' = "BOX FULL!"
            /\ UNCHANGED team
       ELSE IF \E i \in DOMAIN team : team[i].id = pokemon.id
       THEN /\ toast' = "ALREADY CAUGHT!"
            /\ team' = Append(team, pokemon)
       ELSE /\ team' = Append(team, pokemon)
            /\ toast' = "GOTCHA!"
    /\ UNCHANGED <<searchId, queryStatus, pokemon, fnVars>>

addToTeam ==
    /\ IF pokemon = NoPokemon
       THEN UNCHANGED <<team, toast>>
       ELSE IF Len(team) >= MaxTeam
       THEN /\ toast' = "BOX FULL!"
            /\ UNCHANGED team
       ELSE IF \E i \in DOMAIN team : team[i].id = pokemon.id
       THEN /\ toast' = "ALREADY CAUGHT!"
            /\ UNCHANGED team
       ELSE /\ team' = Append(team, pokemon)
            /\ toast' = "GOTCHA!"
    /\ UNCHANGED <<searchId, queryStatus, pokemon, fnVars>>

\* mutant: team.filter(p => p.id === id)
FilterOnly(tm, id) == SelectSeq(tm, LAMBDA p : p.id = id)

\* team.filter(p => p.id !== id)
FilterOut(tm, id) == SelectSeq(tm, LAMBDA p : p.id # id)

removeFromTeam(id) ==
    /\ UNCHANGED <<searchId, queryStatus, pokemon, toast, fnVars>>
    /\ team' = FilterOut(team, id)

\* the CLEAR button, rendered while team.length > 0
clearTeam ==
    /\ Len(team) > 0
    /\ team' = <<>>
    /\ UNCHANGED <<searchId, queryStatus, pokemon, toast, fnVars>>

---------------------------------------------------------------------------
(* Home: the comparison computed on every render *)

\* mutant: with no subject the types of a placeholder entity are used
currentTypesPlaceholder(p) == IF p = NoPokemon THEN <<"fire">> ELSE p.types

\* pokemon?.types.map(t => t.type.name) || []
currentTypes(p) == IF p = NoPokemon THEN <<>> ELSE p.types

\* matchups[key] > 1, false for a key the record does not hold
GreaterThanOne(matchups, key) ==
    key \in DOMAIN matchups /\ matchups[key] > Unit

\* mutant: the filter keeps multiplier >= 1
WeaknessesOrNeutral(matchups) ==
    SelectSeq(AllTypes, LAMBDA t : t \in DOMAIN matchups /\ matchups[t] >= Unit)

\* Object.entries(matchups).filter(([_, m]) => m > 1).map(([type]) => type)
Weaknesses(matchups) == SelectSeq(AllTypes, LAMBDA t : GreaterThanOne(matchups, t))

currentPokemonWeaknesses(p) ==
    Weaknesses(calculateDefensiveMatchups(currentTypes(p)).matchups)

teamAdvantage(p, tm) ==
    LET weaknesses == currentPokemonWeaknesses(p)
    IN  SelectSeq(tm, LAMBDA member :
            \E i \in DOMAIN member.types : Includes(weaknesses, member.types[i]))

\* mutant: the subject's own types stand in for its offensive strengths
currentPokemonOwnTypes(p) == currentTypes(p)

currentPokemonStrengths(p) == getOffensiveStrengths(currentTypes(p))

teamDisadvantage(p, tm) ==
    LET strengths == currentPokemonStrengths(p)
    IN  SelectSeq(tm, LAMBDA member :
            LET memberMatchups == calculateDefensiveMatchups(member.types).matchups
            IN  \E i \in DOMAIN strengths :
                    GreaterThanOne(memberMatchups, strengths[i]))

---------------------------------------------------------------------------
(* Home: the detail dialog of a roster member *)

\* the keys of TYPE_COLORS
TYPE_COLORS ==
    { "normal", "fire", "water", "electric", "grass", "ice", "fighting",
      "poison", "ground", "flying", "psychic", "bug", "rock", "ghost",
      "dragon", "steel", "fairy" }

\* TYPE_COLORS[t.type.name].split(' ')[0] for every type of the member:
\* .split of a missing entry (undefined) is a TypeError
DialogThrows(member) ==
    \E i \in DOMAIN member.types : member.types[i] \notin TYPE_COLORS

---------------------------------------------------------------------------
(* The pure functions applied to bounded arguments *)

\* every sequence of at most MaxLen identifiers
RECURSIVE SeqsUpTo(_, _)
SeqsUpTo(S, n) ==
    IF n = 0 THEN { <<>> }
    ELSE LET shorter == SeqsUpTo(S, n - 1)
         IN  shorter \cup { Append(s, x) : s \in shorter, x \in S }

NoResult == [threw |-> FALSE, matchups |-> NoMatchups, strengths |-> <<>>]

FnIdle ==
    /\ fnTypes = <<>>
    /\ fnPc = "idle"
    /\ fnResult = NoResult

FnInit ==
    /\ fnTypes \in SeqsUpTo(Identifiers, MaxLen)
    /\ fnPc = "start"
    /\ fnResult = NoResult

CallCalculateDefensiveMatchups ==
    /\ fnPc = "start"
    /\ fnPc' = "matchups"
    /\ fnResult' = [threw |-> calculateDefensiveMatchups(fnTypes).threw,
                    matchups |-> calculateDefensiveMatchups(fnTypes).matchups,
                    strengths |-> <<>>]
    /\ UNCHANGED <<fnTypes, appVars>>

CallGetOffensiveStrengths ==
    /\ fnPc = "start"
    /\ fnPc' = "strengths"
    /\ fnResult' = [threw |-> FALSE, matchups |-> NoMatchups,
                    strengths |-> getOffensiveStrengths(fnTypes)]
    /\ UNCHANGED <<fnTypes, appVars>>

---------------------------------------------------------------------------
(* Specifications *)

Init == AppInit /\ FnIdle

Next ==
    \/ \E inputValue \in SearchInputs : handleSearch(inputValue)
    \/ handleNext
    \/ handlePrev
    \/ LoadSuccess
    \/ LoadFailure
    \/ addToTeam
    \/ \E id \in Ids : removeFromTeam(id)
    \/ clearTeam

Spec == Init /\ [][Next]_vars

InitFn == AppInit /\ FnInit

NextFn ==
    \/ CallCalculateDefensiveMatchups
    \/ CallGetOffensiveStrengths

SpecFn == InitFn /\ [][NextFn]_vars

---------------------------------------------------------------------------
(* Claims about the pure functions, checked under SpecFn *)

\* the index positions of `types` whose identifier has a table entry with
\* attacker A in its list `field` ("double", "half" or "zero")
Hits(types, A, field) ==
    { i \in DOMAIN types :
        /\ toLowerCase(types[i]) \in CanonicalTypes
        /\ \E j \in DOMAIN TYPE_CHART[toLowerCase(types[i])][field] :
              TYPE_CHART[toLowerCase(types[i])][field][j] = A }

\* the product of 2 per doubling defender, 0.5 per halving one, 0 per
\* cancelling one, starting from 1, in units of 1/Unit
ProductOfFactors(types, A) ==
    IF Hits(types, A, "zero") # {} THEN 0
    ELSE (Unit * 2 ^ Cardinality(Hits(types, A, "double")))
            \div 2 ^ Cardinality(Hits(types, A, "half"))

\* every identifier is a type (in any letter case) or names nothing at all
NoInheritedKey(types) ==
    \A i \in DOMAIN types : toLowerCase(types[i]) \notin ObjectPrototypeKeys

PermutationsOf(s) ==
    { [i \in DOMAIN s |-> s[p[i]]] : p \in Permutations(DOMAIN s) }

\* C2: calculateDefensiveMatchups gives the same result, entry by entry, for
\* every permutation of its input.
C2_OrderIndependent ==
    fnPc = "matchups" =>
        \A q \in PermutationsOf(fnTypes) :
            /\ calculateDefensiveMatchups(q).threw = fnResult.threw
            /\ DOMAIN calculateDefensiveMatchups(q).matchups = DOMAIN fnResult.matchups
            /\ \A A \in DOMAIN fnResult.matchups :
                  calculateDefensiveMatchups(q).matchups[A] = fnResult.matchups[A]

C2_Witness ==
    /\ fnPc = "matchups"
    /\ fnTypes = <<"flying", "fire">>
    /\ fnResult.matchups = calculateDefensiveMatchups(<<"fire", "flying">>).matchups
    /\ fnResult.matchups["rock"] = 4 * Unit

\* the canonical types T whose double list holds one of the attackers
WeakTo(attackerTypes) ==
    { T \in CanonicalTypes :
        \E i \in DOMAIN attackerTypes :
            \E j \in DOMAIN TYPE_CHART[T].double :
                TYPE_CHART[T].double[j] = toLowerCase(attackerTypes[i]) }

Elements(list) == { list[i] : i \in DOMAIN list }

NoDuplicates(list) == \A i, j \in DOMAIN list : list[i] = list[j] => i = j

\* C3: getOffensiveStrengths returns, without duplicates, exactly the
\* canonical types T such that a supplied attacking type is in the double list
\* of T's entry (the inverse relation, not the attacker's own double list);
\* [water] gives fire, ground and rock and neither electric nor grass.
C3_OffensiveStrengths ==
    fnPc = "strengths" =>
        /\ NoDuplicates(fnResult.strengths)
        /\ Elements(fnResult.strengths) = WeakTo(fnTypes)
        /\ fnTypes = <<"water">> =>
              /\ {"fire", "ground", "rock"} \subseteq Elements(fnResult.strengths)
              /\ Elements(fnResult.strengths) \cap {"electric", "grass"} = {}

C3_Witness ==
    /\ fnPc = "strengths"
    /\ fnTypes = <<"water">>
    /\ Elements(fnResult.strengths) = {"fire", "ground", "rock"}

\* C4 as stated: getOffensiveStrengths([ghost]) is exactly {ghost, dark}.
C4_AsStated ==
    (fnPc = "strengths" /\ fnTypes = <<"ghost">>) =>
        Elements(fnResult.strengths) = {"ghost", "dark"}

\* C4 (amended): getOffensiveStrengths([ghost]) is exactly {psychic, ghost},
\* the types whose double list contains ghost.
C4_GhostStrengths ==
    (fnPc = "strengths" /\ fnTypes = <<"ghost">>) =>
        /\ Elements(fnResult.strengths) = {"psychic", "ghost"}
        /\ Len(fnResult.strengths) = 2

C4_Witness ==
    /\ fnPc = "strengths"
    /\ fnTypes = <<"ghost">>
    /\ fnResult.strengths = <<"psychic", "ghost">>

\* the sequence with the identifiers outside the canonical types removed
Recognized(types) == SelectSeq(types, LAMBDA x : toLowerCase(x) \in CanonicalTypes)

\* C5: an identifier outside the 18 canonical types is a neutral
\* contribution and never a hard failure: both functions complete without
\* raising an error and return what they return for the input with the
\* unrecognized identifiers removed.
C5_UnknownIsNeutral ==
    /\ fnPc = "matchups" =>
          /\ ~fnResult.threw
          /\ fnResult.matchups = calculateDefensiveMatchups(Recognized(fnTypes)).matchups
    /\ fnPc = "strengths" =>
          /\ ~fnResult.threw
          /\ fnResult.strengths = getOffensiveStrengths(Recognized(fnTypes))

---------------------------------------------------------------------------
(* Claims about the roster and the comparator, checked under Spec *)

\* C6: in every reachable state the roster holds at most 6 members and no
\* two members have the same identifying number.
C6_RosterInvariant ==
    /\ Len(team) <= 6
    /\ \A i, j \in DOMAIN team : team[i].id = team[j].id => i = j

\* a full roster has turned a seventh, distinct subject away
C6_Witness ==
    /\ Len(team) = 6
    /\ pokemon # NoPokemon
    /\ \A i \in DOMAIN team : team[i].id # pokemon.id
    /\ toast = "BOX FULL!"

\* addToTeam finds the subject loaded, room in the roster and no member with
\* the subject's number
AddAccepted ==
    /\ pokemon # NoPokemon
    /\ Len(team) < 6
    /\ \A i \in DOMAIN team : team[i].id # pokemon.id

\* C7: add member succeeds exactly when a subject is loaded, the roster has
\* fewer than 6 members and no member has the subject's number; on success
\* the subject is appended after the existing members, which keep their
\* order. With the roster at 6 or the number already present the add is
\* rejected with a non-fatal notification and the roster is left as it was.
C7_AddMember ==
    [][ addToTeam =>
          /\ AddAccepted =>
                /\ Len(team') = Len(team) + 1
                /\ team'[Len(team')] = pokemon
                /\ \A i \in DOMAIN team : team'[i] = team[i]
                /\ toast' = "GOTCHA!"
          /\ ~AddAccepted => team' = team
          /\ (pokemon # NoPokemon /\ Len(team) >= 6) => toast' = "BOX FULL!"
          /\ (pokemon # NoPokemon /\ Len(team) < 6 /\ ~AddAccepted)
                => toast' = "ALREADY CAUGHT!"
          /\ <<searchId, queryStatus, pokemon>>' = <<searchId, queryStatus, pokemon>>
      ]_vars

\* a duplicate add has been turned away from a roster with room left
C7_Witness ==
    /\ toast = "ALREADY CAUGHT!"
    /\ pokemon # NoPokemon
    /\ Len(team) = 2
    /\ team[1].id = pokemon.id

\* the j-th smallest position of a set of positions
NthOf(K, j) == CHOOSE k \in K : Cardinality({ m \in K : m <= k }) = j

\* C8: remove member with number i yields the roster without the member whose
\* number is i, every other member kept and in the same relative order; when
\* no member has number i the roster is unchanged; the subject never changes.
C8_RemoveMember ==
    [][ \A id \in Ids :
          removeFromTeam(id) =>
            /\ \A k \in DOMAIN team :
                  team[k].id = id =>
                    /\ Len(team') = Len(team) - 1
                    /\ \A j \in 1..(k - 1) : team'[j] = team[j]
                    /\ \A j \in k..(Len(team) - 1) : team'[j] = team[j + 1]
            /\ \A j \in DOMAIN team' : team'[j].id # id
            /\ (\A k \in DOMAIN team : team[k].id # id) => team' = team
            /\ pokemon' = pokemon
            /\ <<searchId, queryStatus>>' = <<searchId, queryStatus>>
      ]_vars

\* one member has been removed from a roster that had been full: "BOX FULL!"
\* is still the last notification, and only a removal leads from 6 members to 5
C8_Witness ==
    /\ toast = "BOX FULL!"
    /\ Len(team) = 5
    /\ team[1].id = 2

\* The type lists of the entities, and over them the closed forms that C1 and
\* C3 establish for the two functions
DexTypes == { Pokedex[i].types : i \in Ids }

ProductTable == [ts \in DexTypes |-> [A \in CanonicalTypes |-> ProductOfFactors(ts, A)]]

WeakToTable == [ts \in DexTypes |-> WeakTo(ts)]

\* C9: with a subject loaded, the Advantage set is exactly the roster members,
\* in roster order, that have a type T for which calculateDefensiveMatchups
\* over the subject's types gives a multiplier greater than 1; a fire subject
\* is weak to water, ground and rock, and a roster of one water and one normal
\* member gives an Advantage set of the water member only.
C9_AdvantageSet ==
    pokemon # NoPokemon =>
        LET subject == ProductTable[pokemon.types]
            Adv(member) ==
                \E i \in DOMAIN member.types :
                    /\ member.types[i] \in DOMAIN subject
                    /\ subject[member.types[i]] > Unit
            K == { k \in DOMAIN team : Adv(team[k]) }
            advantage == teamAdvantage(pokemon, team)
        IN  /\ Len(advantage) = Cardinality(K)
            /\ \A j \in 1..Cardinality(K) : advantage[j] = team[NthOf(K, j)]
            /\ pokemon.types = <<"fire">> =>
                  /\ Elements(currentPokemonWeaknesses(pokemon))
                        = {"water", "ground", "rock"}
                  /\ (Len(team) = 2 /\ team[1].types = <<"water">>
                        /\ team[2].types = <<"normal">>)
                        => teamAdvantage(pokemon, team) = <<team[1]>>

C9_Witness ==
    /\ pokemon # NoPokemon
    /\ pokemon.types = <<"fire">>
    /\ Len(team) = 2
    /\ team[1].types = <<"water">>
    /\ team[2].types = <<"normal">>
    /\ teamAdvantage(pokemon, team) = <<team[1]>>

C11_EmptySets ==
    /\ queryStatus # "success" => pokemon = NoPokemon
    /\ (pokemon = NoPokemon \/ team = <<>>) =>
          /\ teamAdvantage(pokemon, team) = <<>>
          /\ teamDisadvantage(pokemon, team) = <<>>

\* a retrieval has failed while the roster holds a member that a fire or a
\* ghost subject would have put into one of the sets
C11_Witness ==
    /\ queryStatus = "error"
    /\ pokemon = NoPokemon
    /\ Len(team) = 2
    /\ team[1].types = <<"water">>
    /\ team[2].types = <<"psychic">>
    /\ teamAdvantage(pokemon, team) = <<>>
    /\ teamDisadvantage(pokemon, team) = <<>>

\* a spelling of the identifier that differs in letter case only (the inverse
\* of toLowerCase on the case variants)
OtherCase(t) ==
    CASE t = "water" -> "Water"
      [] t = "fire" -> "FIRE"
      [] OTHER -> t

\* the entity with every type identifier spelled in the other case
Respelled(p) == [p EXCEPT !.types = [i \in DOMAIN p.types |-> OtherCase(p.types[i])]]

RespelledTeam(tm) == [k \in DOMAIN tm |-> Respelled(tm[k])]

\* the identifying numbers of a sequence of entities, in order
IdsOf(tm) == [k \in DOMAIN tm |-> tm[k].id]

\* C12: type identifiers are case-insensitive throughout the comparator:
\* replacing type identifiers of the subject or of roster members by
\* spellings that differ only in letter case changes neither the Advantage
\* set nor the Risk set.
C12_CaseInsensitive ==
    pokemon # NoPokemon =>
        \A p \in {pokemon, Respelled(pokemon)} :
            \A tm \in {team, RespelledTeam(team)} :
                /\ IdsOf(teamAdvantage(p, tm)) = IdsOf(teamAdvantage(pokemon, team))
                /\ IdsOf(teamDisadvantage(p, tm)) = IdsOf(teamDisadvantage(pokemon, team))

\* C13: the Risk set answers whether the subject is super effective against
\* the team: a roster member is in the Risk set exactly when one of the
\* subject's own types, taken as the attacking type, has a multiplier greater
\* than 1 in calculateDefensiveMatchups over that member's types.
C13_RiskIsSuperEffective ==
    pokemon # NoPokemon =>
        \A k \in DOMAIN team :
            Includes(teamDisadvantage(pokemon, team), team[k])
                <=> \E i \in DOMAIN pokemon.types :
                        ProductTable[team[k].types][pokemon.types[i]] > Unit

\* C14: showing the detail dialog of a roster member never dereferences a
\* missing colour entry: every type of every roster member has an entry in
\* TYPE_COLORS, so TYPE_COLORS[type].split(...) raises no error.
C14_DialogNeverThrows ==
    \A k \in DOMAIN team :
        /\ \A i \in DOMAIN team[k].types : team[k].types[i] \in TYPE_COLORS
        /\ ~DialogThrows(team[k])

====
